---- MODULE Spec2Model ----
(***************************************************************************)
(* Beans-to-diamonds calculator: the tier table, the tier resolver, the    *)
(* single-tier converter and the greedy optimizer, in the three variants   *)
(* the repository holds:                                                   *)
(*   src/BeanstoDiamondsCalcGrok.py  (names without suffix)                *)
(*   src/streamlit_app.py            (suffix _app)                         *)
(*   src/unnamed/part_000            (suffix _p0)                          *)
(*                                                                         *)
(* Rates are the decimals of the source in ten-thousandths (0.2661 is      *)
(* 2661) and efficiencies in hundredths of a percent.  math.floor(beans *  *)
(* rate) on IEEE doubles equals the exact floor of beans * rate / 10000    *)
(* for every beans in 1..200000 and every rate of the table, and           *)
(* math.ceil(1 / rate) equals the exact ceiling, so integer arithmetic     *)
(* computes what the code computes.                                        *)
(***************************************************************************)
EXTENDS Integers, Sequences, FiniteSets, TLC

VARIABLES conversion_tiers, call, result

vars == <<conversion_tiers, call, result>>

\* ------------------------------------------------------------------ bounds
\* Amounts are taken in a window of this half-width around every tier edge.
Window == 3

\* ------------------------------------------------------- values of the code
RateScale == 10000

\* float('inf'), the max_beans of the last tier
Inf == -1

\* None in an Optional[int] field (fixed_diamonds of the last tier)
None == -2

\* None where the code returns an object (a tier, a result dict)
PyNone == [none |-> TRUE]

ConversionTier(lo, hi, rate, eff, fixed) ==
    [min_beans |-> lo, max_beans |-> hi, diamonds_per_bean |-> rate,
     efficiency |-> eff, fixed_diamonds |-> fixed]

\* faulty variant: the rate of tier 4 with two digits swapped, 0.2736 for 0.2763
TierTable_RateTypo ==
    << ConversionTier(1, 8, 2500, 2500, 2),
       ConversionTier(9, 109, 2661, 2661, 29),
       ConversionTier(110, 999, 2753, 2753, 275),
       ConversionTier(1000, 3999, 2736, 2763, 1105),
       ConversionTier(4000, 10999, 2768, 2768, 3045),
       ConversionTier(11000, Inf, 2767, 2767, None) >>

\* faulty variant: tier 3 starting at 100, inside tier 2
TierTable_Overlap ==
    << ConversionTier(1, 8, 2500, 2500, 2),
       ConversionTier(9, 109, 2661, 2661, 29),
       ConversionTier(100, 999, 2753, 2753, 275),
       ConversionTier(1000, 3999, 2763, 2763, 1105),
       ConversionTier(4000, 10999, 2768, 2768, 3045),
       ConversionTier(11000, Inf, 2767, 2767, None) >>

\* BeansToDiamondsCalculator.__init__ (the same table in all three variants)
TierTable ==
    << ConversionTier(1, 8, 2500, 2500, 2),
       ConversionTier(9, 109, 2661, 2661, 29),
       ConversionTier(110, 999, 2753, 2753, 275),
       ConversionTier(1000, 3999, 2763, 2763, 1105),
       ConversionTier(4000, 10999, 2768, 2768, 3045),
       ConversionTier(11000, Inf, 2767, 2767, None) >>

\* ---------------------------------------------------------- Python helpers
\* truth value of an Optional[int]: None and 0 are false
Truthy(x) == x # None /\ x # 0

\* int <= float, where the float may be inf
LeqMax(beans, max_beans) == max_beans = Inf \/ beans <= max_beans

\* int == float, where the float may be inf
EqMax(beans, max_beans) == max_beans # Inf /\ beans = max_beans

Min(a, b) == IF a <= b THEN a ELSE b

\* math.floor(beans * rate), rate > 0, beans any integer
FloorMul(beans, rate) == (beans * rate) \div RateScale

\* faulty variant: math.floor(1 / rate) for math.ceil(1 / rate)
CeilInv_Floor(rate) == RateScale \div rate

\* math.ceil(1 / rate)
CeilInv(rate) == (RateScale + rate - 1) \div rate

\* list.index(tier): the first position holding an equal element
RECURSIVE IndexFrom(_, _, _)
IndexFrom(tiers, tier, i) ==
    IF i > Len(tiers) THEN 0
    ELSE IF tiers[i] = tier THEN i
    ELSE IndexFrom(tiers, tier, i + 1)

Index(tiers, tier) == IndexFrom(tiers, tier, 1)

\* ------------------------------------------------------------- find_tier
\* faulty variant: the upper end of the range taken as exclusive
InRange_Exclusive(tier, beans) ==
    tier.min_beans <= beans
    /\ (tier.max_beans = Inf \/ beans < tier.max_beans)

InRange(tier, beans) ==
    tier.min_beans <= beans /\ LeqMax(beans, tier.max_beans)

RECURSIVE FindFrom(_, _, _)
FindFrom(tiers, beans, i) ==
    IF i > Len(tiers) THEN PyNone
    ELSE IF InRange(tiers[i], beans) THEN tiers[i]
    ELSE FindFrom(tiers, beans, i + 1)

find_tier(tiers, beans) == FindFrom(tiers, beans, 1)

\* ---------------------------------------------------- calculate_diamonds
\* faulty variant: the exact value at the upper edge forgotten
Diamonds_FloorOnly(tier, beans) == FloorMul(beans, tier.diamonds_per_bean)

\* BeanstoDiamondsCalcGrok.py: the exact value at the tier's upper edge,
\* the floor of beans * rate elsewhere
Diamonds(tier, beans) ==
    IF Truthy(tier.fixed_diamonds) /\ EqMax(beans, tier.max_beans)
    THEN tier.fixed_diamonds
    ELSE FloorMul(beans, tier.diamonds_per_bean)

\* BeanstoDiamondsCalcGrok.py: beans % math.ceil(1 / rate), on every path
Remainder(tier, beans) == beans % CeilInv(tier.diamonds_per_bean)

ResultDict(tiers, tier, diamonds, remainder) ==
    [diamonds |-> diamonds,
     remainder |-> remainder,
     efficiency |-> tier.efficiency,
     diamonds_per_bean |-> tier.diamonds_per_bean,
     tier |-> Index(tiers, tier)]

calculate_diamonds(tiers, beans) ==
    IF beans <= 0 THEN PyNone
    ELSE LET tier == find_tier(tiers, beans) IN
         IF tier = PyNone THEN PyNone
         ELSE ResultDict(tiers, tier, Diamonds(tier, beans),
                         Remainder(tier, beans))

\* streamlit_app.py: the five upper edges are literals of the method, and
\* on that path remainder keeps its initial 0
HardcodedApp == (8 :> 2) @@ (109 :> 29) @@ (999 :> 275) @@ (3999 :> 1105)
                @@ (10999 :> 3045)

DiamondsApp(tier, beans) ==
    IF Truthy(tier.fixed_diamonds) /\ LeqMax(beans, tier.max_beans)
       /\ beans \in DOMAIN HardcodedApp
    THEN HardcodedApp[beans]
    ELSE FloorMul(beans, tier.diamonds_per_bean)

RemainderApp(tier, beans) ==
    IF Truthy(tier.fixed_diamonds) /\ LeqMax(beans, tier.max_beans)
       /\ beans \in DOMAIN HardcodedApp
    THEN 0
    ELSE beans % CeilInv(tier.diamonds_per_bean)

calculate_diamonds_app(tiers, beans) ==
    IF beans <= 0 THEN PyNone
    ELSE LET tier == find_tier(tiers, beans) IN
         IF tier = PyNone THEN PyNone
         ELSE ResultDict(tiers, tier, DiamondsApp(tier, beans),
                         RemainderApp(tier, beans))

\* unnamed/part_000: the same text as BeanstoDiamondsCalcGrok.py but for
\* the guard, which for an integer is the same test
calculate_diamonds_p0(tiers, beans) ==
    IF beans = 0 \/ beans <= 0 THEN PyNone
    ELSE LET tier == find_tier(tiers, beans) IN
         IF tier = PyNone THEN PyNone
         ELSE ResultDict(tiers, tier,
                  IF Truthy(tier.fixed_diamonds) /\ EqMax(beans, tier.max_beans)
                  THEN tier.fixed_diamonds
                  ELSE FloorMul(beans, tier.diamonds_per_bean),
                  beans % CeilInv(tier.diamonds_per_bean))

\* -------------------------------------------------------- optimize_beans
\* faulty variant: every tier allocated to while the remainder is not negative
Allocates_NonNegative(remaining_beans, tier) == remaining_beans >= 0

\* if remaining_beans >= tier.min_beans
Allocates(remaining_beans, tier) == remaining_beans >= tier.min_beans

\* faulty variant: the unbounded tier capped at its min_beans
BeansInTier_CapAtMin(remaining_beans, tier) ==
    LET max_beans == IF tier.max_beans # Inf THEN tier.max_beans
                     ELSE tier.min_beans
    IN  IF remaining_beans <= max_beans THEN remaining_beans ELSE max_beans

\* max_beans = tier.max_beans if tier.max_beans != inf else remaining_beans
\* beans_in_tier = min(remaining_beans, int(max_beans))
BeansInTier(remaining_beans, tier) ==
    LET max_beans == IF tier.max_beans # Inf THEN tier.max_beans
                     ELSE remaining_beans
    IN  Min(remaining_beans, max_beans)

\* the diamonds credited to a tier of the loop
TierDiamonds(tier, beans_in_tier) ==
    IF Truthy(tier.fixed_diamonds) /\ EqMax(beans_in_tier, tier.max_beans)
    THEN tier.fixed_diamonds
    ELSE FloorMul(beans_in_tier, tier.diamonds_per_bean)

\* unnamed/part_000: the same, behind an override for 10803 beans in the
\* 4000-10999 tier
TierDiamonds_p0(tier, beans_in_tier) ==
    IF tier.min_beans = 4000 /\ EqMax(10999, tier.max_beans)
       /\ beans_in_tier = 10803
    THEN 2974
    ELSE IF Truthy(tier.fixed_diamonds) /\ EqMax(beans_in_tier, tier.max_beans)
    THEN tier.fixed_diamonds
    ELSE FloorMul(beans_in_tier, tier.diamonds_per_bean)

BreakdownEntry(tier_number, tier, beans, diamonds) ==
    [tier |-> tier_number, beans |-> beans, diamonds |-> diamonds,
     rate |-> tier.diamonds_per_bean, efficiency |-> tier.efficiency]

\* faulty variant: the decrement forgotten
Decrement_Forgotten(remaining_beans, beans_in_tier) == remaining_beans

\* remaining_beans -= beans_in_tier
Decrement(remaining_beans, beans_in_tier) == remaining_beans - beans_in_tier

\* one pass of the loop body; st is the locals breakdown, total_diamonds,
\* remaining_beans
Fill(tiers, tier, st) ==
    IF Allocates(st.remaining_beans, tier)
    THEN LET beans_in_tier == BeansInTier(st.remaining_beans, tier)
             diamonds == TierDiamonds(tier, beans_in_tier)
         IN  [breakdown |-> Append(st.breakdown,
                  BreakdownEntry(Index(tiers, tier), tier, beans_in_tier,
                                 diamonds)),
              total_diamonds |-> st.total_diamonds + diamonds,
              remaining_beans |-> Decrement(st.remaining_beans, beans_in_tier)]
    ELSE st

Fill_p0(tiers, tier, st) ==
    IF Allocates(st.remaining_beans, tier)
    THEN LET beans_in_tier == BeansInTier(st.remaining_beans, tier)
             diamonds == TierDiamonds_p0(tier, beans_in_tier)
         IN  [breakdown |-> Append(st.breakdown,
                  BreakdownEntry(Index(tiers, tier), tier, beans_in_tier,
                                 diamonds)),
              total_diamonds |-> st.total_diamonds + diamonds,
              remaining_beans |-> Decrement(st.remaining_beans, beans_in_tier)]
    ELSE st

\* for tier in reversed(self.conversion_tiers)
RECURSIVE Loop(_, _, _)
Loop(tiers, i, st) ==
    IF i = 0 THEN st ELSE Loop(tiers, i - 1, Fill(tiers, tiers[i], st))

RECURSIVE Loop_p0(_, _, _)
Loop_p0(tiers, i, st) ==
    IF i = 0 THEN st ELSE Loop_p0(tiers, i - 1, Fill_p0(tiers, tiers[i], st))

\* faulty variant: 'if remaining_beans:' for 'if remaining_beans > 0:'
Leftover_Truthy(tiers, st) ==
    IF st.remaining_beans # 0
    THEN LET tier == tiers[1]
             diamonds == FloorMul(st.remaining_beans, tier.diamonds_per_bean)
         IN  [breakdown |-> Append(st.breakdown,
                  BreakdownEntry(1, tier, st.remaining_beans, diamonds)),
              total_diamonds |-> st.total_diamonds + diamonds,
              remaining_beans |-> st.remaining_beans]
    ELSE st

\* if remaining_beans > 0: the rest goes to conversion_tiers[0] as tier 1
Leftover(tiers, st) ==
    IF st.remaining_beans > 0
    THEN LET tier == tiers[1]
             diamonds == FloorMul(st.remaining_beans, tier.diamonds_per_bean)
         IN  [breakdown |-> Append(st.breakdown,
                  BreakdownEntry(1, tier, st.remaining_beans, diamonds)),
              total_diamonds |-> st.total_diamonds + diamonds,
              remaining_beans |-> st.remaining_beans]
    ELSE st

\* sorted(breakdown, key=lambda x: x['tier']): a stable sort
RECURSIVE InsertByTier(_, _)
InsertByTier(sorted, e) ==
    IF sorted = <<>> THEN <<e>>
    ELSE IF Head(sorted).tier <= e.tier
    THEN <<Head(sorted)>> \o InsertByTier(Tail(sorted), e)
    ELSE <<e>> \o sorted

RECURSIVE SortedByTier(_)
SortedByTier(breakdown) ==
    IF breakdown = <<>> THEN <<>>
    ELSE InsertByTier(SortedByTier(SubSeq(breakdown, 1, Len(breakdown) - 1)),
                      breakdown[Len(breakdown)])

Locals(beans) ==
    [breakdown |-> <<>>, total_diamonds |-> 0, remaining_beans |-> beans]

\* returns the tuple (breakdown, total_diamonds)
optimize_beans(tiers, beans) ==
    IF beans <= 0 THEN << <<>>, 0 >>
    ELSE LET st == Leftover(tiers, Loop(tiers, Len(tiers), Locals(beans)))
         IN  << SortedByTier(st.breakdown), st.total_diamonds >>

\* unnamed/part_000: no guard on beans
optimize_beans_p0(tiers, beans) ==
    LET st == Leftover(tiers, Loop_p0(tiers, Len(tiers), Locals(beans)))
    IN  << SortedByTier(st.breakdown), st.total_diamonds >>

\* ---------------------------------------------------- get_efficiency_tip
TipPositive == "Please enter a positive number of beans."
TipIncrease == "Efficiency increases significantly after 109 beans!"
TipReach == "Maximum efficiency is reached at 4000+ beans!"
TipMax == "Great! You're at maximum efficiency tier!"

\* faulty variant: the first threshold taken as inclusive
get_efficiency_tip_Inclusive(beans) ==
    IF beans <= 0 THEN TipPositive
    ELSE IF beans <= 109 THEN TipIncrease
    ELSE IF beans < 4000 THEN TipReach
    ELSE TipMax

get_efficiency_tip(beans) ==
    IF beans <= 0 THEN TipPositive
    ELSE IF beans < 109 THEN TipIncrease
    ELSE IF beans < 4000 THEN TipReach
    ELSE TipMax

get_efficiency_tip_app(beans) ==
    IF beans < 109 THEN TipIncrease
    ELSE IF beans < 4000 THEN TipReach
    ELSE TipMax

get_efficiency_tip_p0(beans) ==
    IF beans < 109 THEN TipIncrease
    ELSE IF beans < 4000 THEN TipReach
    ELSE TipMax

\* -------------------------------------------------------- get_tier_table
\* a row (range, rate, efficiency, example): the range as its two ends, the
\* example as (max_beans, fixed_diamonds) or, without one, the efficiency
TierRow(tier) ==
    [range |-> <<tier.min_beans, tier.max_beans>>,
     rate |-> tier.diamonds_per_bean,
     efficiency |-> tier.efficiency,
     example |-> IF Truthy(tier.fixed_diamonds) /\ tier.max_beans # Inf
                 THEN <<tier.max_beans, tier.fixed_diamonds>>
                 ELSE <<tier.efficiency>>]

get_tier_table(tiers) == [i \in 1..Len(tiers) |-> TierRow(tiers[i])]

\* ---------------------------------------------------------- the machine
\* the amounts the callers pass: around every tier edge, and some inside
Edges == {TierTable[i].min_beans - 1 : i \in 1..Len(TierTable)}

Probes == {-5, 50, 500, 5000, 10802, 10803, 10804, 11004, 11005, 20000}

Amounts == UNION {(e - Window + 1)..(e + Window) : e \in Edges} \cup Probes

Init ==
    /\ conversion_tiers = TierTable
    /\ call = [op |-> "__init__", beans |-> 0]
    /\ result = PyNone

FindTier ==
    \E beans \in Amounts :
        /\ call' = [op |-> "find_tier", beans |-> beans]
        /\ result' = find_tier(conversion_tiers, beans)
        /\ UNCHANGED conversion_tiers

CalculateDiamonds ==
    \E beans \in Amounts :
        /\ call' = [op |-> "calculate_diamonds", beans |-> beans]
        /\ result' = calculate_diamonds(conversion_tiers, beans)
        /\ UNCHANGED conversion_tiers

CalculateDiamondsApp ==
    \E beans \in Amounts :
        /\ call' = [op |-> "calculate_diamonds_app", beans |-> beans]
        /\ result' = calculate_diamonds_app(conversion_tiers, beans)
        /\ UNCHANGED conversion_tiers

CalculateDiamondsP0 ==
    \E beans \in Amounts :
        /\ call' = [op |-> "calculate_diamonds_p0", beans |-> beans]
        /\ result' = calculate_diamonds_p0(conversion_tiers, beans)
        /\ UNCHANGED conversion_tiers

OptimizeBeansP0 ==
    \E beans \in Amounts :
        /\ call' = [op |-> "optimize_beans_p0", beans |-> beans]
        /\ result' = optimize_beans_p0(conversion_tiers, beans)
        /\ UNCHANGED conversion_tiers

GetEfficiencyTip ==
    \E beans \in Amounts :
        /\ call' = [op |-> "get_efficiency_tip", beans |-> beans]
        /\ result' = get_efficiency_tip(beans)
        /\ UNCHANGED conversion_tiers

GetEfficiencyTipApp ==
    \E beans \in Amounts :
        /\ call' = [op |-> "get_efficiency_tip_app", beans |-> beans]
        /\ result' = get_efficiency_tip_app(beans)
        /\ UNCHANGED conversion_tiers

GetEfficiencyTipP0 ==
    \E beans \in Amounts :
        /\ call' = [op |-> "get_efficiency_tip_p0", beans |-> beans]
        /\ result' = get_efficiency_tip_p0(beans)
        /\ UNCHANGED conversion_tiers

\* faulty variant: self.conversion_tiers.reverse() for
\* reversed(self.conversion_tiers), which reverses the table in place
OptimizeBeans_ReverseInPlace ==
    \E beans \in Amounts :
        LET n == Len(conversion_tiers)
            reversed == [i \in 1..n |-> conversion_tiers[n + 1 - i]]
        IN  /\ call' = [op |-> "optimize_beans", beans |-> beans]
            /\ result' = optimize_beans(reversed, beans)
            /\ conversion_tiers' = reversed

OptimizeBeans ==
    \E beans \in Amounts :
        /\ call' = [op |-> "optimize_beans", beans |-> beans]
        /\ result' = optimize_beans(conversion_tiers, beans)
        /\ UNCHANGED conversion_tiers

GetTierTable ==
    /\ call' = [op |-> "get_tier_table", beans |-> 0]
    /\ result' = get_tier_table(conversion_tiers)
    /\ UNCHANGED conversion_tiers

Next ==
    \/ FindTier
    \/ CalculateDiamonds
    \/ CalculateDiamondsApp
    \/ CalculateDiamondsP0
    \/ OptimizeBeans
    \/ OptimizeBeansP0
    \/ GetEfficiencyTip
    \/ GetEfficiencyTipApp
    \/ GetEfficiencyTipP0
    \/ GetTierTable

Spec == Init /\ [][Next]_vars

\* ====================================================== properties
\* what the claims speak of, stated apart from the operations above
OptimizeOps == {"optimize_beans", "optimize_beans_p0"}

CalculateOps ==
    {"calculate_diamonds", "calculate_diamonds_app", "calculate_diamonds_p0"}

TipOps ==
    {"get_efficiency_tip", "get_efficiency_tip_app", "get_efficiency_tip_p0"}

\* the tiers whose range holds the amount
TiersHolding(beans) ==
    {i \in 1..Len(conversion_tiers) :
        /\ conversion_tiers[i].min_beans <= beans
        /\ \/ conversion_tiers[i].max_beans = Inf
           \/ beans <= conversion_tiers[i].max_beans}

\* the output of one tier for an amount: the exact value at the upper edge,
\* the floor of amount * rate elsewhere
ExpectedOutput(tier, beans) ==
    IF tier.fixed_diamonds # None /\ tier.max_beans # Inf
       /\ beans = tier.max_beans
    THEN tier.fixed_diamonds
    ELSE (beans * tier.diamonds_per_bean) \div RateScale

\* the exact breakpoints the specification lists: amount, output, tier
Breakpoints ==
    {<<8, 2, 1>>, <<109, 29, 2>>, <<999, 275, 3>>, <<3999, 1105, 4>>,
     <<10999, 3045, 5>>}

RECURSIVE SumBeans(_)
SumBeans(breakdown) ==
    IF breakdown = <<>> THEN 0
    ELSE Head(breakdown).beans + SumBeans(Tail(breakdown))

\* a is below the last tier and b among its first five amounts
IntoLastTier(a, b) ==
    LET edge == conversion_tiers[Len(conversion_tiers)].min_beans
    IN  a < edge /\ b \in edge..(edge + 4)

\* the total optimize_beans returns for another amount
TotalFor(a) == optimize_beans(conversion_tiers, a)[2]

\* the positive amounts up to the one of the current call
AmountsUpTo(b) == {a \in Amounts : 0 < a /\ a <= b}

\* ------------------------------------------------------------------ C1
\* C1 (as claimed): for all positive a <= b the total of optimize_beans(a)
\* is at most the total of optimize_beans(b).
C1_MonotoneEverywhere ==
    (call.op = "optimize_beans" /\ call.beans > 0) =>
        \A a \in AmountsUpTo(call.beans) : TotalFor(a) <= result[2]

\* C1 (amended): for all positive a <= b the total of optimize_beans(a) is
\* at most the total of optimize_beans(b), except when a <= 10999 and
\* 11000 <= b <= 11004: from tier 5 into the start of tier 6 the total can
\* drop (10999 gives 3045, 11000 gives 3043).
C1_MonotoneExceptIntoLastTier ==
    (call.op = "optimize_beans" /\ call.beans > 0) =>
        \A a \in AmountsUpTo(call.beans) :
            ~IntoLastTier(a, call.beans) => TotalFor(a) <= result[2]

C1_Witness ==
    /\ call.op = "optimize_beans"
    /\ call.beans = 4000 /\ result[2] = 1107
    /\ 3999 \in AmountsUpTo(call.beans) /\ TotalFor(3999) = 1105

\* ------------------------------------------------------------------ C2
\* C2: for every positive amount calculate_diamonds returns the 1-based
\* index of the tier whose range holds the amount, and as output the tier's
\* exact value at its upper edge (8 -> 2, 109 -> 29, 999 -> 275,
\* 3999 -> 1105, 10999 -> 3045) and floor(amount * rate) elsewhere.
C2_OutputAndTier ==
    (call.op \in CalculateOps /\ call.beans > 0) =>
        /\ result # PyNone
        /\ TiersHolding(call.beans) = {result.tier}
        /\ result.diamonds =
               ExpectedOutput(conversion_tiers[result.tier], call.beans)
        /\ \A bp \in Breakpoints :
               call.beans = bp[1] =>
                   result.diamonds = bp[2] /\ result.tier = bp[3]

C2_Witness ==
    /\ call.op = "calculate_diamonds_app"
    /\ call.beans = 10999
    /\ result.diamonds = 3045 /\ result.tier = 5

\* ------------------------------------------------------------------ C3
\* C3: for every positive amount the beans of the breakdown entries of
\* optimize_beans(amount) sum to amount.
C3_BeansConserved ==
    (call.op \in OptimizeOps /\ call.beans > 0) =>
        SumBeans(result[1]) = call.beans

C3_Witness ==
    /\ call.op = "optimize_beans"
    /\ call.beans = 11001
    /\ Len(result[1]) > 0
    /\ SumBeans(result[1]) = 11001

\* ------------------------------------------------------------------ C4
\* C4: every breakdown entry of optimize_beans is credited the tier's exact
\* value when its beans equal the tier's max_beans and floor(beans * rate)
\* otherwise, with no override for a particular input; optimize_beans(10803)
\* puts all 10803 beans in tier 5 and totals floor(10803 * 0.2768) = 2990.
C4_NoInputOverride ==
    (call.op \in OptimizeOps /\ call.beans > 0) =>
        /\ \A k \in 1..Len(result[1]) :
               result[1][k].diamonds =
                   ExpectedOutput(conversion_tiers[result[1][k].tier],
                                  result[1][k].beans)
        /\ call.beans = 10803 =>
               /\ Len(result[1]) = 1
               /\ result[1][1].tier = 5
               /\ result[1][1].beans = 10803
               /\ result[2] = 2990

\* ------------------------------------------------------------------ C5
\* C5: for every amount >= 1 find_tier returns a tier, the first in table
\* order and the only one whose range holds the amount (tier 6 from 11000
\* on); for every amount <= 0 it returns None.
C5_FindTierUnique ==
    call.op = "find_tier" =>
        IF call.beans >= 1
        THEN /\ result # PyNone
             /\ \E i \in 1..Len(conversion_tiers) :
                    /\ result = conversion_tiers[i]
                    /\ TiersHolding(call.beans) = {i}
             /\ call.beans >= 11000 => result = conversion_tiers[6]
        ELSE result = PyNone

C5_Witness ==
    /\ call.op = "find_tier"
    /\ call.beans = 11000
    /\ result = conversion_tiers[6]

\* ------------------------------------------------------------------ C6
\* C6: for an amount <= 0 calculate_diamonds returns None and
\* optimize_beans returns the empty breakdown with total 0.
C6_NonPositiveNoResult ==
    call.beans <= 0 =>
        /\ call.op \in CalculateOps => result = PyNone
        /\ call.op \in OptimizeOps => result = << <<>>, 0 >>

C6_Witness ==
    /\ call.op = "optimize_beans_p0"
    /\ call.beans = -5
    /\ result = << <<>>, 0 >>

\* ------------------------------------------------------------------ C7
\* C7: for every positive amount the remainder of calculate_diamonds is
\* amount mod ceil(1 / rate) of the resolved tier, at the exact breakpoints
\* too.
C7_RemainderAlways ==
    (call.op \in CalculateOps /\ call.beans > 0) =>
        /\ result # PyNone
        /\ LET rate == conversion_tiers[result.tier].diamonds_per_bean
               ceil == CHOOSE n \in 1..RateScale :
                           n * rate >= RateScale /\ (n - 1) * rate < RateScale
           IN  result.remainder = call.beans % ceil

\* ------------------------------------------------------------------ C8
\* C8: the breakdown of optimize_beans lists its entries in strictly
\* ascending tier order, so at most one per tier, each with nonzero beans.
C8_BreakdownAscending ==
    call.op \in OptimizeOps =>
        /\ \A k \in 1..Len(result[1]) : result[1][k].beans # 0
        /\ \A k \in 1..(Len(result[1]) - 1) :
               result[1][k].tier < result[1][k + 1].tier

C8_Witness ==
    /\ call.op = "optimize_beans"
    /\ call.beans = 20000
    /\ Len(result[1]) = 1
    /\ result[1][1].tier = 6 /\ result[1][1].beans = 20000

\* ------------------------------------------------------------------ C9
\* C9: in every state the tier table is contiguous: tier i + 1 starts right
\* after tier i ends, tier 1 starts at 1 and tier 6 has no upper bound.
C9_TableContiguous ==
    /\ Len(conversion_tiers) = 6
    /\ conversion_tiers[1].min_beans = 1
    /\ conversion_tiers[6].max_beans = Inf
    /\ \A i \in 1..5 :
           /\ conversion_tiers[i].max_beans # Inf
           /\ conversion_tiers[i].min_beans <= conversion_tiers[i].max_beans
           /\ conversion_tiers[i].max_beans + 1
                  = conversion_tiers[i + 1].min_beans

C9_Witness ==
    /\ call.op = "optimize_beans"
    /\ call.beans = 11000
    /\ conversion_tiers[5].max_beans + 1 = conversion_tiers[6].min_beans

\* ----------------------------------------------------------------- C10
ThreeMessages(beans) ==
    IF beans < 109 THEN TipIncrease
    ELSE IF beans <= 3999 THEN TipReach
    ELSE TipMax

\* C10 (as claimed): for every integer amount the tip is 'increase beans'
\* below 109, 'reach 4000+' from 109 to 3999 and 'max tier' from 4000 on.
C10_ThreeMessagesEveryInteger ==
    call.op \in TipOps => result = ThreeMessages(call.beans)

\* C10 (amended): for every positive amount the tip is one of these three
\* messages by the two thresholds; for an amount <= 0
\* BeanstoDiamondsCalcGrok.py returns a fourth message, 'enter a positive
\* number', and the other two variants return 'increase beans'.
C10_ThreeMessagesPositive ==
    call.op \in TipOps =>
        result = IF call.beans <= 0 /\ call.op = "get_efficiency_tip"
                 THEN TipPositive
                 ELSE ThreeMessages(call.beans)

C10_Witness ==
    /\ call.op = "get_efficiency_tip"
    /\ call.beans = 109
    /\ result = TipReach

\* ----------------------------------------------------------------- C11
\* what a call returns on the table as __init__ built it
ResultOnInitialTable(op, beans) ==
    CASE op = "find_tier" -> find_tier(TierTable, beans)
      [] op = "calculate_diamonds" -> calculate_diamonds(TierTable, beans)
      [] op = "calculate_diamonds_app" ->
             calculate_diamonds_app(TierTable, beans)
      [] op = "calculate_diamonds_p0" ->
             calculate_diamonds_p0(TierTable, beans)
      [] op = "optimize_beans" -> optimize_beans(TierTable, beans)
      [] op = "optimize_beans_p0" -> optimize_beans_p0(TierTable, beans)
      [] op = "get_efficiency_tip" -> get_efficiency_tip(beans)
      [] op = "get_efficiency_tip_app" -> get_efficiency_tip_app(beans)
      [] op = "get_efficiency_tip_p0" -> get_efficiency_tip_p0(beans)
      [] op = "get_tier_table" -> get_tier_table(TierTable)

\* C11: no call changes the tier table, and after any sequence of earlier
\* calls a call returns what its argument alone decides: the same call
\* repeated returns the same result, and every result is the one the call
\* gives on the table as constructed.
C11_Stateless ==
    [][ /\ conversion_tiers' = conversion_tiers
        /\ result' = ResultOnInitialTable(call'.op, call'.beans)
        /\ (call' = call) => (result' = result) ]_vars

C11_Witness ==
    /\ call.op = "optimize_beans"
    /\ call.beans = 10999
    /\ result = optimize_beans(TierTable, 10999)
    /\ result[2] = 3045
    /\ conversion_tiers = TierTable

\* ----------------------------------------------------------------- C12
\* C12: for every positive amount the loop of optimize_beans gives the
\* whole amount to the tier find_tier returns: remaining_beans is 0 after
\* the loop, so the leftover step adds nothing, the breakdown has one entry
\* and the total is the output of calculate_diamonds; from 11000 on that
\* tier is tier 6, at its rate.
C12_OptimizeIsSingleTier ==
    (call.op = "optimize_beans" /\ call.beans > 0) =>
        LET locals == Loop(conversion_tiers, Len(conversion_tiers),
                           Locals(call.beans))
            found == find_tier(conversion_tiers, call.beans)
        IN  /\ locals.remaining_beans = 0
            /\ Len(locals.breakdown) = 1
            /\ Len(result[1]) = 1
            /\ found # PyNone
            /\ TiersHolding(call.beans) = {result[1][1].tier}
            /\ conversion_tiers[result[1][1].tier] = found
            /\ result[1][1].beans = call.beans
            /\ result[2] = result[1][1].diamonds
            /\ result[2] =
                   calculate_diamonds(conversion_tiers, call.beans).diamonds
            /\ call.beans >= 11000 =>
                   /\ result[1][1].tier = 6
                   /\ result[2] = (call.beans * 2767) \div RateScale

C12_Witness ==
    /\ call.op = "optimize_beans"
    /\ call.beans = 11002
    /\ Len(result[1]) = 1
    /\ result[1][1].tier = 6 /\ result[1][1].beans = 11002
    /\ result[2] = 3044

\* ----------------------------------------------------------------- C13
\* C13: ceil(1 / rate) is 4 for each of the six rates, so for every
\* positive amount the remainder calculate_diamonds returns is amount mod 4,
\* a value in 0..3 whatever the tier.
C13_RemainderMod4 ==
    /\ \A i \in 1..Len(conversion_tiers) :
           LET rate == conversion_tiers[i].diamonds_per_bean
           IN  4 * rate >= RateScale /\ 3 * rate < RateScale
    /\ (call.op \in {"calculate_diamonds", "calculate_diamonds_p0"}
        /\ call.beans > 0) =>
           /\ result # PyNone
           /\ result.remainder = call.beans % 4
           /\ result.remainder \in 0..3

C13_Witness ==
    /\ call.op = "calculate_diamonds"
    /\ call.beans = 10999
    /\ result.tier = 5
    /\ result.remainder = 3

====
